---- MODULE Spec2Model ----
(***************************************************************************)
(* A model of lightsailTools: the default CLI command builds a             *)
(* LightSailManager and runs attachCert followed by updateDNS.  Every      *)
(* remote call ($`aws lightsail ...`) is one step of the run; the platform *)
(* (certificate stores, DNS zones, the container service) is the           *)
(* environment.  JavaScript strings are sequences of one-character        *)
(* strings, so that split, replace, includes and the regular expressions   *)
(* of the source are computed, not assumed.                                *)
(***************************************************************************)
EXTENDS Integers, Sequences, FiniteSets, TLC

(***************************************************************************)
(* Bounds of the model.                                                    *)
(***************************************************************************)
\* Longest input string of the string-function specification.
MaxLen == 3
\* Largest maxAttempts the propagation-wait specification draws.
MaxAttemptsBound == 3
\* Runs of the command against the same platform state.
MaxRuns == 2

(***************************************************************************)
(* JavaScript string primitives on sequences of characters.                *)
(***************************************************************************)
\* s.startsWith(sub, i-1): sub occurs in s at position i.
MatchAt(s, sub, i) ==
  /\ i >= 1
  /\ i + Len(sub) - 1 <= Len(s)
  /\ \A k \in 1..Len(sub) : s[i + k - 1] = sub[k]

\* s.indexOf(sub) + 1: the first position of sub in s, 0 when there is none.
IndexOf(s, sub) ==
  LET hits == {i \in 1..(Len(s) + 1) : MatchAt(s, sub, i)}
  IN  IF hits = {} THEN 0 ELSE CHOOSE i \in hits : \A j \in hits : i <= j

\* s.includes(sub)
Includes(s, sub) == IndexOf(s, sub) # 0

\* s.replace(sub, rep) with a string pattern: the first occurrence only.
ReplaceFirst(s, sub, rep) ==
  LET i == IndexOf(s, sub)
  IN  IF i = 0 THEN s
      ELSE SubSeq(s, 1, i - 1) \o rep \o SubSeq(s, i + Len(sub), Len(s))

\* s.split(sep) for a one-character separator: "" splits into [""].
RECURSIVE Split(_, _)
Split(s, sep) ==
  LET i == IndexOf(s, <<sep>>)
  IN  IF i = 0 THEN <<s>>
      ELSE <<SubSeq(s, 1, i - 1)>> \o Split(SubSeq(s, i + 1, Len(s)), sep)

\* parts.join(sep)
RECURSIVE Join(_, _)
Join(parts, sep) ==
  IF Len(parts) = 0 THEN <<>>
  ELSE IF Len(parts) = 1 THEN parts[1]
  ELSE parts[1] \o <<sep>> \o Join(Tail(parts), sep)

\* parts.slice(1)
Slice1(parts) == IF Len(parts) = 0 THEN <<>> ELSE Tail(parts)

Whitespace == {" ", "\n", "\t"}

\* s.trim()
RECURSIVE Trim(_)
Trim(s) ==
  IF Len(s) = 0 THEN s
  ELSE IF s[1] \in Whitespace THEN Trim(Tail(s))
  ELSE IF s[Len(s)] \in Whitespace THEN Trim(SubSeq(s, 1, Len(s) - 1))
  ELSE s

LowerLetters == {"a", "b", "c", "e", "r", "s", "t"}
UpperLetters == {"A", "B"}
Digits == {"0", "1"}

\* c.toLowerCase() on the letters of the model's alphabet.
ToLowerChar(c) ==
  CASE c = "A" -> "a"
    [] c = "B" -> "b"
    [] OTHER -> c

\* The character class [^a-zA-Z0-9-] of certNameFromDomain.
IsCertNameChar(c) == c \in LowerLetters \cup UpperLetters \cup Digits \cup {"-"}

CertSuffix == <<"-", "c", "e", "r", "t">>

\* Faulty variant: appends the suffix only when it is not there yet.
certNameFromDomainOnce(domainName) ==
  LET clean == [i \in 1..Len(domainName) |->
                  ToLowerChar(IF IsCertNameChar(domainName[i])
                              THEN domainName[i] ELSE "-")]
  IN  IF Len(clean) >= Len(CertSuffix)
         /\ MatchAt(clean, CertSuffix, Len(clean) - Len(CertSuffix) + 1)
      THEN clean ELSE clean \o CertSuffix

\* domainName.replace(/[^a-zA-Z0-9-]/g, '-').toLowerCase() + '-cert'
certNameFromDomain(domainName) ==
  [i \in 1..Len(domainName) |->
     ToLowerChar(IF IsCertNameChar(domainName[i]) THEN domainName[i] ELSE "-")]
  \o CertSuffix

SchemeHttp == <<"h", "t", "t", "p", ":", "/", "/">>
SchemeHttps == <<"h", "t", "t", "p", "s", ":", "/", "/">>

\* url.replace(/^https?:\/\//, '')
StripScheme(url) ==
  IF MatchAt(url, SchemeHttps, 1) THEN SubSeq(url, Len(SchemeHttps) + 1, Len(url))
  ELSE IF MatchAt(url, SchemeHttp, 1) THEN SubSeq(url, Len(SchemeHttp) + 1, Len(url))
  ELSE url

\* url.replace(/\/$/, '')
StripTrailingSlash(url) ==
  IF Len(url) > 0 /\ url[Len(url)] = "/" THEN SubSeq(url, 1, Len(url) - 1) ELSE url

\* The target normalisation of attachCert (line 100) and updateDNS (line 168).
CleanTarget(url) == StripTrailingSlash(StripScheme(url))


(***************************************************************************)
(* The record/zone decomposition of a domain name.                         *)
(***************************************************************************)
Dot == "."
At == <<"@">>

\* attachCert, lines 78-87: recordName.
AttachRecordName(d) ==
  LET parts == Split(d, Dot)
  IN  IF Len(parts) = 2 THEN At ELSE parts[1]

\* attachCert, lines 78-87: zoneName.
AttachZoneName(d) ==
  LET parts == Split(d, Dot)
  IN  IF Len(parts) = 2 THEN d ELSE Join(Slice1(parts), Dot)

\* attachCert, line 93: fullRecordName.
FullRecordName(rec, zone) == IF rec = At THEN zone ELSE rec \o <<Dot>> \o zone

\* updateDNS, lines 143-154: dnsZoneName (an empty option is falsy).
DnsZoneFor(d, z) == IF z # <<>> THEN z ELSE AttachZoneName(d)

\* updateDNS, lines 143-154: recordName.
DnsRecordNameFor(d, z) ==
  IF z # <<>> THEN ReplaceFirst(d, <<Dot>> \o z, <<>>) ELSE AttachRecordName(d)

\* updateDNS, line 141: parts.length < 2.
IsInvalidDomain(d) == Len(Split(d, Dot)) < 2

(***************************************************************************)
(* Error output of a failed remote call (err.stderr).                      *)
(***************************************************************************)
AlreadyExist == <<"a", "l", "r", "e", "a", "d", "y", " ", "e", "x", "i", "s", "t">>
AlreadyExists == AlreadyExist \o <<"s">>
\* "already exist." : holds "already exist" and not "already exists".
MsgAlreadyExist == AlreadyExist \o <<".">>
MsgAlreadyExists == AlreadyExists \o <<".">>
MsgDenied == <<"d", "e", "n", "i", "e", "d">>
\* No error output at all (undefined or ""): falsy in the source's test.
NoStderr == <<>>
DuplicateStderr == {MsgAlreadyExist, MsgAlreadyExists}
OtherStderr == {MsgDenied, NoStderr}
AllStderr == DuplicateStderr \cup OtherStderr
\* The error output of a failed call whose text the source never reads.
FailStderr == {MsgDenied}

\* Faulty variant: the certificate race is recognised only by "already exists".
CertRaceStrict(stderr) == stderr # <<>> /\ Includes(stderr, AlreadyExists)

\* attachCert, line 67: err.stderr && err.stderr.includes("already exist")
CertRace(stderr) == stderr # <<>> /\ Includes(stderr, AlreadyExist)

\* Faulty variant: every failure of create-domain-entry is swallowed.
CnameRaceAny(stderr) == TRUE

\* attachCert, line 115: err.stderr && err.stderr.includes("already exists")
CnameRace(stderr) == stderr # <<>> /\ Includes(stderr, AlreadyExists)

\* Faulty variant: the certificate is requested whatever the query said.
NeedsCertificateAlways(exists) == TRUE

\* attachCert, line 61: if (!certExists)
NeedsCertificate(exists) == ~exists

\* Faulty variant: the loop bound is off by one.
LoopContinuesInclusive(a, m) == a <= m

\* waitForDomainEntry, line 206: while (attempts < maxAttempts)
LoopContinues(a, m) == a < m


(***************************************************************************)
(* Inputs of the command and the platform the model draws from.            *)
(***************************************************************************)
\* One label, the apex of a zone, a record in a zone, a record two deep.
Domains ==
  { <<"c">>,
    <<"e", ".", "c">>,
    <<"a", ".", "e", ".", "c">>,
    <<"a", ".", "b", ".", "e", ".", "c">> }
\* --dns-zone: omitted, or the zone e.c.
DnsZoneOptions == { <<>>, <<"e", ".", "c">> }
\* --cert-name: omitted, or an override.
CertNameOptions == { <<>>, <<"t">> }
\* --region: the default, or the DNS region itself.
DefaultRegion == "ca-central-1"
DefaultDNSRegion == "us-east-1"
Regions == {DefaultRegion, DefaultDNSRegion}
\* What get-container-services prints for containerServices[0].url.
ServiceUrl == <<"h", "t", "t", "p", "s", ":", "/", "/", "s", ".", "r", "/", "\n">>
\* The target an A entry of the zone held before the run.
OldTarget == <<"t">>
\* Defaults of waitForDomainEntry(domainName, zoneName, region, maxAttempts, delayMs).
DefaultMaxAttempts == 10
DefaultDelayMs == 5000

NoEntry == [id |-> 0, zone |-> <<>>, name |-> <<>>, type |-> "", target |-> <<>>, isAlias |-> FALSE]
NoError == [kind |-> "none", message |-> "", stderr |-> <<>>, secs |-> 0]

VARIABLES
  \* options of the command line
  domainName, certNameOpt, dnsZoneOpt, region,
  \* fields of the LightSailManager instance
  thisCertName, thisFullRecordName, thisDomainEntry,
  \* locals of attachCert
  certExists, recordName, zoneName, existingRecords, containerURL,
  \* locals of updateDNS
  dnsRecordName, dnsZoneName, dnsContainerURL, existingEntry,
  \* parameters and locals of waitForDomainEntry
  waitDomainName, waitZoneName, maxAttempts, delayMs, attempts,
  \* the platform: certificates per region, DNS zones and their entries (those
  \* of `lagging` are not listed yet), the service's public domain names
  certificates, zones, domainEntries, lagging, publicDomainNames,
  \* the run: position, exit code (-1 while running), the error raised
  pc, exitCode, error,
  \* history: the remote calls of this run, what each poll saw, the sleeps,
  \* how the wait ended, the run number, the runs that created the certificate
  calls, pollLog, sleeps, waitOutcome, run, createdInRuns,
  \* the string-function specification: input and outputs
  inStr, outStr, outStr2

options == <<domainName, certNameOpt, dnsZoneOpt, region>>
fields == <<thisCertName, thisFullRecordName, thisDomainEntry>>
attachLocals == <<certExists, recordName, zoneName, existingRecords, containerURL>>
dnsLocals == <<dnsRecordName, dnsZoneName, dnsContainerURL, existingEntry>>
waitLocals == <<waitDomainName, waitZoneName, maxAttempts, delayMs, attempts>>
platform == <<certificates, zones, domainEntries, lagging, publicDomainNames>>
control == <<pc, exitCode, error>>
waitHistory == <<pollLog, sleeps, waitOutcome>>
history == <<calls, pollLog, sleeps, waitOutcome, run, createdInRuns>>
strings == <<inStr, outStr, outStr2>>
vars == <<options, fields, attachLocals, dnsLocals, waitLocals, platform, control,
          history, strings>>

\* One remote call as the history records it.
Call(op, reg, arg, step, ok, stderr) ==
  [op |-> op, region |-> reg, arg |-> arg, step |-> step, ok |-> ok, stderr |-> stderr]

\* The certificate name of the run: certName || certNameFromDomain(domainName).
CertNameOf(d, c) == IF c # <<>> THEN c ELSE certNameFromDomain(d)

\* The entries of a zone that a listing shows.
Listed(zone) == {e \in domainEntries \ lagging : e.zone = zone}
ListedNames(zone) == {e.name : e \in Listed(zone)}

\* DNS zones live in the DNS region only (source line 22).
ZoneServed(reg, zone) == reg = DefaultDNSRegion /\ zone \in zones

\* The platform numbers a new entry after the ones it holds.
NextId ==
  LET ids == {e.id : e \in domainEntries} \cup {0}
  IN  1 + CHOOSE i \in ids : \A j \in ids : j <= i

\* Entries a zone may hold before the first run: the CNAME of the domain and
\* an A entry under the record name updateDNS looks for.
CandidateEntries(d, z) ==
  LET az == AttachZoneName(d)
      uz == DnsZoneFor(d, z)
  IN  { [id |-> 1, zone |-> az, name |-> FullRecordName(AttachRecordName(d), az),
         type |-> "CNAME", target |-> CleanTarget(Trim(ServiceUrl)), isAlias |-> FALSE],
        [id |-> 2, zone |-> uz, name |-> DnsRecordNameFor(d, z),
         type |-> "A", target |-> OldTarget, isAlias |-> FALSE] }

RelevantZones(d, z) == {AttachZoneName(d), DnsZoneFor(d, z)}

\* The run's own variables before program.action starts.
FreshRun ==
  /\ thisCertName = <<>> /\ thisFullRecordName = <<>> /\ thisDomainEntry = NoEntry
  /\ certExists = FALSE /\ recordName = <<>> /\ zoneName = <<>>
  /\ existingRecords = {} /\ containerURL = <<>>
  /\ dnsRecordName = <<>> /\ dnsZoneName = <<>> /\ dnsContainerURL = <<>>
  /\ existingEntry = NoEntry
  /\ waitDomainName = <<>> /\ waitZoneName = <<>>
  /\ maxAttempts = 0 /\ delayMs = 0 /\ attempts = 0
  /\ exitCode = -1 /\ error = NoError
  /\ calls = <<>> /\ pollLog = <<>> /\ sleeps = 0 /\ waitOutcome = "none"

Init ==
  /\ domainName \in Domains
  /\ certNameOpt \in CertNameOptions
  /\ dnsZoneOpt \in DnsZoneOptions
  /\ region \in Regions
  /\ certificates \in [Regions -> SUBSET {CertNameOf(domainName, certNameOpt)}]
  /\ zones \in SUBSET RelevantZones(domainName, dnsZoneOpt)
  /\ domainEntries \in SUBSET {e \in CandidateEntries(domainName, dnsZoneOpt) : e.zone \in zones}
  /\ lagging = {}
  /\ publicDomainNames = {}
  /\ pc = "start"
  /\ FreshRun
  /\ run = 1 /\ createdInRuns = {}
  /\ inStr = <<>> /\ outStr = <<>> /\ outStr2 = <<>>

\* A thrown error reaches the catch of program.action: process.exit(1).
Throw(err) ==
  /\ pc' = "exit"
  /\ exitCode' = 1
  /\ error' = err

\* What zx throws for a command that exits non-zero.
RemoteError(stderr) ==
  [kind |-> "remote", message |-> "", stderr |-> stderr, secs |-> 0]


(***************************************************************************)
(* program.action and attachCert.                                          *)
(***************************************************************************)
\* program.action, lines 16-19, and attachCert, lines 54-56.
Action ==
  /\ pc = "start"
  /\ thisCertName' = CertNameOf(domainName, certNameOpt)
  /\ pc' = "certExists"
  /\ UNCHANGED <<options, thisFullRecordName, thisDomainEntry, attachLocals, dnsLocals,
                 waitLocals, platform, exitCode, error, history, strings>>

\* certExists, lines 39-48, and the branch of attachCert, line 61: a failed
\* query is caught and reported as "no such certificate".
CertExists ==
  /\ pc = "certExists"
  /\ \E ok \in BOOLEAN, stderr \in {NoStderr} \cup FailStderr :
       /\ ok => stderr = NoStderr
       /\ calls' = Append(calls, Call("get-certificates", region, thisCertName,
                                      "certExists", ok, stderr))
       /\ certExists' = (ok /\ thisCertName \in certificates[region])
       /\ pc' = IF NeedsCertificate(certExists') THEN "createCertificate"
                ELSE "getDomainNames"
  /\ UNCHANGED <<options, fields, recordName, zoneName, existingRecords, containerURL,
                 dnsLocals, waitLocals, platform, exitCode, error, waitHistory, run,
                 createdInRuns, strings>>

\* attachCert, lines 61-72: create-certificate in the DNS region.  The
\* platform refuses a name it already holds; a refusal that reports a
\* duplicate means the certificate is there (created by someone else).
CreateCertificate ==
  /\ pc = "createCertificate"
  /\ \/ /\ thisCertName \notin certificates[DefaultDNSRegion]
        /\ certificates' = [certificates EXCEPT ![DefaultDNSRegion] = @ \cup {thisCertName}]
        /\ calls' = Append(calls, Call("create-certificate", DefaultDNSRegion, thisCertName,
                                       "createCertificate", TRUE, NoStderr))
        /\ createdInRuns' = createdInRuns \cup {run}
        /\ pc' = "getDomainNames"
        /\ UNCHANGED <<exitCode, error>>
     \/ \E stderr \in AllStderr :
          /\ certificates' =
               IF stderr \in DuplicateStderr
               THEN [certificates EXCEPT ![DefaultDNSRegion] = @ \cup {thisCertName}]
               ELSE certificates
          /\ calls' = Append(calls, Call("create-certificate", DefaultDNSRegion,
                                         thisCertName, "createCertificate", FALSE, stderr))
          /\ UNCHANGED createdInRuns
          /\ IF CertRace(stderr)
             THEN pc' = "getDomainNames" /\ UNCHANGED <<exitCode, error>>
             ELSE Throw(RemoteError(stderr))
  /\ UNCHANGED <<options, fields, attachLocals, dnsLocals, waitLocals, zones,
                 domainEntries, lagging, publicDomainNames, waitHistory, run, strings>>

\* attachCert, lines 78-95: decompose the domain, list the zone's names.
GetDomainNames ==
  /\ pc = "getDomainNames"
  /\ recordName' = AttachRecordName(domainName)
  /\ zoneName' = AttachZoneName(domainName)
  /\ \/ /\ ZoneServed(DefaultDNSRegion, zoneName')
        /\ existingRecords' = ListedNames(zoneName')
        /\ thisFullRecordName' = FullRecordName(recordName', zoneName')
        /\ calls' = Append(calls, Call("get-domain", DefaultDNSRegion, zoneName',
                                       "getDomainNames", TRUE, NoStderr))
        /\ pc' = "getContainerServices"
        /\ UNCHANGED <<exitCode, error>>
     \/ \E stderr \in FailStderr :
          /\ calls' = Append(calls, Call("get-domain", DefaultDNSRegion, zoneName',
                                         "getDomainNames", FALSE, stderr))
          /\ Throw(RemoteError(stderr))
          /\ UNCHANGED <<existingRecords, thisFullRecordName>>
  /\ UNCHANGED <<options, thisCertName, thisDomainEntry, certExists, containerURL,
                 dnsLocals, waitLocals, platform, waitHistory, run, createdInRuns, strings>>

\* attachCert, lines 98-102: the container URL, cleaned; then the test of
\* existingRecords.includes(fullRecordName).
GetContainerServices ==
  /\ pc = "getContainerServices"
  /\ \/ /\ containerURL' = CleanTarget(Trim(ServiceUrl))
        /\ calls' = Append(calls, Call("get-container-services", region, <<>>,
                                       "getContainerServices", TRUE, NoStderr))
        /\ pc' = IF thisFullRecordName \in existingRecords
                 THEN "updateContainerService" ELSE "createDomainEntry"
        /\ UNCHANGED <<exitCode, error>>
     \/ \E stderr \in FailStderr :
          /\ calls' = Append(calls, Call("get-container-services", region, <<>>,
                                         "getContainerServices", FALSE, stderr))
          /\ Throw(RemoteError(stderr))
          /\ UNCHANGED containerURL
  /\ UNCHANGED <<options, fields, certExists, recordName, zoneName, existingRecords,
                 dnsLocals, waitLocals, platform, waitHistory, run, createdInRuns, strings>>

\* The entry attachCert asks the platform to create, lines 105-109.
CnameEntry ==
  [id |-> NextId, zone |-> zoneName, name |-> thisFullRecordName, type |-> "CNAME",
   target |-> containerURL, isAlias |-> FALSE]

\* attachCert, lines 102-123: create-domain-entry in the DNS region.  A new
\* entry may take a while to show in listings.
CreateDomainEntry ==
  /\ pc = "createDomainEntry"
  /\ LET held == \E e \in domainEntries :
                   e.zone = zoneName /\ e.name = thisFullRecordName /\ e.type = "CNAME"
     IN  \/ /\ ZoneServed(DefaultDNSRegion, zoneName) /\ ~held
            /\ domainEntries' = domainEntries \cup {CnameEntry}
            /\ \E lag \in BOOLEAN :
                 lagging' = IF lag THEN lagging \cup {CnameEntry} ELSE lagging
            /\ calls' = Append(calls, Call("create-domain-entry", DefaultDNSRegion,
                                           zoneName, "createDomainEntry", TRUE, NoStderr))
            /\ pc' = "updateContainerService"
            /\ UNCHANGED <<exitCode, error>>
         \/ \E stderr \in AllStderr :
              /\ stderr \in DuplicateStderr => ZoneServed(DefaultDNSRegion, zoneName)
              /\ IF stderr \in DuplicateStderr /\ ~held
                 THEN /\ domainEntries' = domainEntries \cup {CnameEntry}
                      /\ lagging' = lagging \cup {CnameEntry}
                 ELSE UNCHANGED <<domainEntries, lagging>>
              /\ calls' = Append(calls, Call("create-domain-entry", DefaultDNSRegion,
                                             zoneName, "createDomainEntry", FALSE, stderr))
              /\ IF CnameRace(stderr)
                 THEN pc' = "updateContainerService" /\ UNCHANGED <<exitCode, error>>
                 ELSE Throw(RemoteError(stderr))
  /\ UNCHANGED <<options, fields, attachLocals, dnsLocals, waitLocals, certificates,
                 zones, publicDomainNames, waitHistory, run, createdInRuns, strings>>

\* attachCert, lines 126-133: update-container-service replaces the public
\* domain names of the service; attachCert returns and updateDNS is called.
UpdateContainerService ==
  /\ pc = "updateContainerService"
  /\ \/ /\ publicDomainNames' = {domainName}
        /\ calls' = Append(calls, Call("update-container-service", region, domainName,
                                       "updateContainerService", TRUE, NoStderr))
        /\ pc' = "updateDNS"
        /\ UNCHANGED <<exitCode, error>>
     \/ \E stderr \in FailStderr :
          /\ calls' = Append(calls, Call("update-container-service", region, domainName,
                                         "updateContainerService", FALSE, stderr))
          /\ Throw(RemoteError(stderr))
          /\ UNCHANGED publicDomainNames
  /\ UNCHANGED <<options, fields, attachLocals, dnsLocals, waitLocals, certificates,
                 zones, domainEntries, lagging, waitHistory, run, createdInRuns, strings>>


(***************************************************************************)
(* updateDNS and waitForDomainEntry.                                       *)
(***************************************************************************)
InvalidDomainError ==
  [kind |-> "validation", message |-> "Invalid domain name provided.",
   stderr |-> <<>>, secs |-> 0]

\* waitForDomainEntry, line 217.
TimeoutError(m, d) ==
  [kind |-> "timeout", message |-> "did not appear in Lightsail DNS",
   stderr |-> <<>>, secs |-> (m * d) \div 1000]

\* updateDNS, lines 139-156: validation, then the record and zone names.
UpdateDNS ==
  /\ pc = "updateDNS"
  /\ IF IsInvalidDomain(domainName)
     THEN /\ Throw(InvalidDomainError)
          /\ UNCHANGED <<dnsRecordName, dnsZoneName>>
     ELSE /\ dnsRecordName' = DnsRecordNameFor(domainName, dnsZoneOpt)
          /\ dnsZoneName' = DnsZoneFor(domainName, dnsZoneOpt)
          /\ pc' = "getContainerServicesDNS"
          /\ UNCHANGED <<exitCode, error>>
  /\ UNCHANGED <<options, fields, attachLocals, dnsContainerURL, existingEntry,
                 waitLocals, platform, history, strings>>

\* updateDNS, lines 157-160: the container URL, then the call of
\* waitForDomainEntry(this.fullRecordName, dnsZoneName, this.defaultDNSRegion)
\* with its defaults, lines 204-205.
GetContainerServicesDNS ==
  /\ pc = "getContainerServicesDNS"
  /\ \/ /\ dnsContainerURL' = Trim(ServiceUrl)
        /\ calls' = Append(calls, Call("get-container-services", region, <<>>,
                                       "getContainerServicesDNS", TRUE, NoStderr))
        /\ waitDomainName' = thisFullRecordName
        /\ waitZoneName' = dnsZoneName
        /\ maxAttempts' = DefaultMaxAttempts
        /\ delayMs' = DefaultDelayMs
        /\ attempts' = 0
        /\ waitOutcome' = "pending"
        /\ pc' = "waitForDomainEntry"
        /\ UNCHANGED <<exitCode, error>>
     \/ \E stderr \in FailStderr :
          /\ calls' = Append(calls, Call("get-container-services", region, <<>>,
                                         "getContainerServicesDNS", FALSE, stderr))
          /\ Throw(RemoteError(stderr))
          /\ UNCHANGED <<dnsContainerURL, waitLocals, waitOutcome>>
  /\ UNCHANGED <<options, fields, attachLocals, dnsRecordName, dnsZoneName, existingEntry,
                 platform, pollLog, sleeps, run, createdInRuns, strings>>

\* waitForDomainEntry, lines 206-215: one pass of the loop.  The poll lists
\* the zone in the DNS region; a listing that holds the name returns, any
\* other counts an attempt and sleeps delayMs; a failed poll throws.
WaitPoll ==
  /\ pc = "waitForDomainEntry"
  /\ LoopContinues(attempts, maxAttempts)
  /\ \/ /\ ZoneServed(DefaultDNSRegion, waitZoneName)
        /\ calls' = Append(calls, Call("get-domain", DefaultDNSRegion, waitZoneName,
                                       "waitForDomainEntry", TRUE, NoStderr))
        /\ LET seen == waitDomainName \in ListedNames(waitZoneName)
           IN  /\ pollLog' = Append(pollLog, seen)
               /\ IF seen
                  THEN /\ pc' = "getDomainEntries"
                       /\ waitOutcome' = "returned"
                       /\ UNCHANGED <<attempts, sleeps>>
                  ELSE /\ attempts' = attempts + 1
                       /\ sleeps' = sleeps + 1
                       /\ UNCHANGED <<pc, waitOutcome>>
        /\ UNCHANGED <<exitCode, error>>
     \/ \E stderr \in FailStderr :
          /\ calls' = Append(calls, Call("get-domain", DefaultDNSRegion, waitZoneName,
                                         "waitForDomainEntry", FALSE, stderr))
          /\ Throw(RemoteError(stderr))
          /\ waitOutcome' = "thrown"
          /\ UNCHANGED <<attempts, sleeps, pollLog>>
  /\ UNCHANGED <<options, fields, attachLocals, dnsLocals, waitDomainName, waitZoneName,
                 maxAttempts, delayMs, platform, run, createdInRuns, strings>>

\* Faulty variant: the wait gives up silently and updateDNS carries on.
WaitTimeoutIgnored ==
  /\ pc = "waitForDomainEntry"
  /\ ~LoopContinues(attempts, maxAttempts)
  /\ pc' = "getDomainEntries"
  /\ waitOutcome' = "timeout"
  /\ UNCHANGED <<options, fields, attachLocals, dnsLocals, waitLocals, platform,
                 exitCode, error, calls, pollLog, sleeps, run, createdInRuns, strings>>

\* waitForDomainEntry, line 217: the loop is over and the name never showed.
WaitTimeout ==
  /\ pc = "waitForDomainEntry"
  /\ ~LoopContinues(attempts, maxAttempts)
  /\ Throw(TimeoutError(maxAttempts, delayMs))
  /\ waitOutcome' = "timeout"
  /\ UNCHANGED <<options, fields, attachLocals, dnsLocals, waitLocals, platform,
                 calls, pollLog, sleeps, run, createdInRuns, strings>>

\* The entry updateDNS builds, lines 169-176.
ARecordEntry ==
  [id |-> 0, zone |-> <<>>, name |-> dnsRecordName, type |-> "A",
   target |-> CleanTarget(dnsContainerURL), isAlias |-> TRUE]

\* updateDNS, lines 164-178 and 189-198: read the zone's entries, look for an
\* A entry under recordName.  With none found the source builds newEntry and
\* issues no call: the method returns.
GetDomainEntries ==
  /\ pc = "getDomainEntries"
  /\ \/ /\ ZoneServed(DefaultDNSRegion, dnsZoneName)
        /\ calls' = Append(calls, Call("get-domain", DefaultDNSRegion, dnsZoneName,
                                       "getDomainEntries", TRUE, NoStderr))
        /\ thisDomainEntry' = ARecordEntry
        /\ LET found == {e \in Listed(dnsZoneName) :
                           e.name = dnsRecordName /\ e.type = "A"}
           IN  IF found = {}
               THEN existingEntry' = NoEntry /\ pc' = "completed"
               ELSE /\ \E e \in found : existingEntry' = e
                    /\ pc' = "updateDomainEntry"
        /\ UNCHANGED <<exitCode, error>>
     \/ \E stderr \in FailStderr :
          /\ calls' = Append(calls, Call("get-domain", DefaultDNSRegion, dnsZoneName,
                                         "getDomainEntries", FALSE, stderr))
          /\ Throw(RemoteError(stderr))
          /\ UNCHANGED <<thisDomainEntry, existingEntry>>
  /\ UNCHANGED <<options, thisCertName, thisFullRecordName, attachLocals, dnsRecordName,
                 dnsZoneName, dnsContainerURL, waitLocals, platform, waitHistory, run,
                 createdInRuns, strings>>

\* updateDNS, lines 178-188: update-domain-entry, issued to this.region, of
\* the entry found with its target and alias flag overwritten.
UpdateDomainEntry ==
  /\ pc = "updateDomainEntry"
  /\ LET updatedEntry == [existingEntry EXCEPT !.target = CleanTarget(dnsContainerURL),
                                               !.isAlias = TRUE]
         held == {e \in domainEntries : e.id = existingEntry.id}
     IN  \/ /\ ZoneServed(region, dnsZoneName) /\ held # {}
            /\ domainEntries' = (domainEntries \ held) \cup {updatedEntry}
            /\ lagging' = lagging \ held
            /\ calls' = Append(calls, Call("update-domain-entry", region, dnsZoneName,
                                           "updateDomainEntry", TRUE, NoStderr))
            /\ pc' = "completed"
            /\ UNCHANGED <<exitCode, error>>
         \/ \E stderr \in FailStderr :
              /\ calls' = Append(calls, Call("update-domain-entry", region, dnsZoneName,
                                             "updateDomainEntry", FALSE, stderr))
              /\ Throw(RemoteError(stderr))
              /\ UNCHANGED <<domainEntries, lagging>>
  /\ UNCHANGED <<options, fields, attachLocals, dnsLocals, waitLocals, certificates,
                 zones, publicDomainNames, waitHistory, run, createdInRuns, strings>>

\* program.action, line 21: both methods returned; the process exits with 0.
Completed ==
  /\ pc = "completed"
  /\ pc' = "exit"
  /\ exitCode' = 0
  /\ UNCHANGED <<options, fields, attachLocals, dnsLocals, waitLocals, platform, error,
                 history, strings>>

(***************************************************************************)
(* The environment.                                                        *)
(***************************************************************************)
\* An entry the platform holds starts to show in listings.
Propagate ==
  /\ \E e \in lagging : lagging' = lagging \ {e}
  /\ UNCHANGED <<options, fields, attachLocals, dnsLocals, waitLocals, certificates,
                 zones, domainEntries, publicDomainNames, control, history, strings>>

\* The command is run again, with the same options, on the platform as the
\* last run left it.
NextRun ==
  /\ pc = "exit"
  /\ run < MaxRuns
  /\ run' = run + 1
  /\ pc' = "start"
  /\ thisCertName' = <<>> /\ thisFullRecordName' = <<>> /\ thisDomainEntry' = NoEntry
  /\ certExists' = FALSE /\ recordName' = <<>> /\ zoneName' = <<>>
  /\ existingRecords' = {} /\ containerURL' = <<>>
  /\ dnsRecordName' = <<>> /\ dnsZoneName' = <<>> /\ dnsContainerURL' = <<>>
  /\ existingEntry' = NoEntry
  /\ waitDomainName' = <<>> /\ waitZoneName' = <<>>
  /\ maxAttempts' = 0 /\ delayMs' = 0 /\ attempts' = 0
  /\ exitCode' = -1 /\ error' = NoError
  /\ calls' = <<>> /\ pollLog' = <<>> /\ sleeps' = 0 /\ waitOutcome' = "none"
  /\ UNCHANGED <<options, platform, createdInRuns, strings>>

Next ==
  \/ Action
  \/ CertExists
  \/ CreateCertificate
  \/ GetDomainNames
  \/ GetContainerServices
  \/ CreateDomainEntry
  \/ UpdateContainerService
  \/ UpdateDNS
  \/ GetContainerServicesDNS
  \/ WaitPoll
  \/ WaitTimeout
  \/ GetDomainEntries
  \/ UpdateDomainEntry
  \/ Completed
  \/ Propagate
  \/ NextRun

Spec == Init /\ [][Next]_vars


(***************************************************************************)
(* waitForDomainEntry on its own: every maxAttempts up to the bound, a     *)
(* zone whose listing gains and loses the name at any moment.              *)
(***************************************************************************)
WaitZone == <<"e", ".", "c">>
WaitName == <<"a", ".", "e", ".", "c">>
WaitEntry ==
  [id |-> 1, zone |-> WaitZone, name |-> WaitName, type |-> "CNAME",
   target |-> CleanTarget(Trim(ServiceUrl)), isAlias |-> FALSE]

WaitInit ==
  /\ domainName = WaitName /\ certNameOpt = <<>> /\ dnsZoneOpt = <<>>
  /\ region \in Regions
  /\ thisCertName = <<>> /\ thisFullRecordName = WaitName /\ thisDomainEntry = NoEntry
  /\ certExists = FALSE /\ recordName = <<>> /\ zoneName = <<>>
  /\ existingRecords = {} /\ containerURL = <<>>
  /\ dnsRecordName = <<>> /\ dnsZoneName = WaitZone /\ dnsContainerURL = <<>>
  /\ existingEntry = NoEntry
  /\ waitDomainName = WaitName /\ waitZoneName = WaitZone
  /\ maxAttempts \in 0..MaxAttemptsBound
  /\ delayMs \in {0, DefaultDelayMs}
  /\ attempts = 0
  /\ certificates = [r \in Regions |-> {}]
  /\ zones \in SUBSET {WaitZone}
  /\ domainEntries \in SUBSET {WaitEntry}
  /\ lagging \in SUBSET domainEntries
  /\ publicDomainNames = {}
  /\ pc = "waitForDomainEntry" /\ exitCode = -1 /\ error = NoError
  /\ calls = <<>> /\ pollLog = <<>> /\ sleeps = 0 /\ waitOutcome = "pending"
  /\ run = 1 /\ createdInRuns = {}
  /\ inStr = <<>> /\ outStr = <<>> /\ outStr2 = <<>>

\* An entry stops showing in listings.
Withdraw ==
  /\ \E e \in domainEntries \ lagging : lagging' = lagging \cup {e}
  /\ UNCHANGED <<options, fields, attachLocals, dnsLocals, waitLocals, certificates,
                 zones, domainEntries, publicDomainNames, control, history, strings>>

WaitNext ==
  \/ WaitPoll
  \/ WaitTimeout
  \/ Propagate
  \/ Withdraw

\* Every remote call returns and the awaiting function is resumed: a pass of
\* the loop that can be taken is taken.
FairWaitSpec ==
  WaitInit /\ [][WaitNext]_vars /\ WF_vars(WaitPoll \/ WaitTimeout)

(***************************************************************************)
(* certNameFromDomain on its own: every string up to MaxLen.               *)
(***************************************************************************)
InputAlphabet == {"a", "B", "1", ".", "-", "_"}
InputStrings == UNION {[1..n -> InputAlphabet] : n \in 0..MaxLen}

StringInit ==
  /\ inStr \in InputStrings /\ outStr = <<>> /\ outStr2 = <<>>
  /\ domainName = <<>> /\ certNameOpt = <<>> /\ dnsZoneOpt = <<>>
  /\ region = DefaultRegion
  /\ certificates = [r \in Regions |-> {}]
  /\ zones = {} /\ domainEntries = {} /\ lagging = {} /\ publicDomainNames = {}
  /\ pc = "certNameFromDomain"
  /\ FreshRun
  /\ run = 1 /\ createdInRuns = {}

\* The function applied to the input, and to its own result.
ApplyCertNameFromDomain ==
  /\ pc = "certNameFromDomain"
  /\ outStr' = certNameFromDomain(inStr)
  /\ outStr2' = certNameFromDomain(outStr')
  /\ pc' = "applied"
  /\ UNCHANGED <<options, fields, attachLocals, dnsLocals, waitLocals, platform,
                 exitCode, error, history, inStr>>

StringNext == ApplyCertNameFromDomain

StringSpec == StringInit /\ [][StringNext]_vars


(***************************************************************************)
(* Properties.                                                             *)
(***************************************************************************)
\* The place of each step in the control flow of the command.
StageOf(step) ==
  CASE step = "certExists" -> 1
    [] step = "createCertificate" -> 2
    [] step = "getDomainNames" -> 3
    [] step = "getContainerServices" -> 4
    [] step = "createDomainEntry" -> 5
    [] step = "updateContainerService" -> 6
    [] step = "getContainerServicesDNS" -> 7
    [] step = "waitForDomainEntry" -> 8
    [] step = "getDomainEntries" -> 9
    [] step = "updateDomainEntry" -> 10

Issued(op) == \E i \in 1..Len(calls) : calls[i].op = op
IssuedAt(step) == \E i \in 1..Len(calls) : calls[i].step = step
Polls == Len(SelectSeq(calls, LAMBDA c : c.step = "waitForDomainEntry"))
LastCall == calls[Len(calls)]

\* The CNAME step of this run has completed: the zone was listed and the name
\* was there, or create-domain-entry succeeded or lost a race.
CnameStepDone ==
  /\ \E i \in 1..Len(calls) : calls[i].step = "getDomainNames" /\ calls[i].ok
  /\ \/ thisFullRecordName \in existingRecords
     \/ \E i \in 1..Len(calls) :
          /\ calls[i].op = "create-domain-entry"
          /\ calls[i].ok \/ calls[i].stderr = MsgAlreadyExists

\* C1: the remote calls of a run follow the control flow certificate query,
\* create-certificate, CNAME step, update-container-service, propagation wait,
\* A-record read, update-domain-entry; only the poll of the wait repeats; the
\* A-record read and update-domain-entry are issued only after the wait has
\* returned, and update-container-service only after the CNAME step is done.
C1_CallsFollowControlFlow ==
  /\ \A i \in 1..(Len(calls) - 1) :
       /\ StageOf(calls[i].step) <= StageOf(calls[i + 1].step)
       /\ StageOf(calls[i].step) = StageOf(calls[i + 1].step)
            => calls[i].step = "waitForDomainEntry"
  /\ Len(calls) > 0 => calls[1].op = "get-certificates"
  /\ Issued("create-certificate") => ~certExists
  /\ IssuedAt("createDomainEntry") => IssuedAt("getContainerServices")
  /\ Issued("update-container-service") => CnameStepDone
  /\ IssuedAt("waitForDomainEntry") =>
       \E i \in 1..Len(calls) : calls[i].op = "update-container-service" /\ calls[i].ok
  /\ IssuedAt("getDomainEntries") => waitOutcome = "returned"
  /\ Issued("update-domain-entry") => waitOutcome = "returned" /\ IssuedAt("getDomainEntries")

C1_Witness ==
  /\ exitCode = 0
  /\ Issued("create-certificate")
  /\ Issued("create-domain-entry")
  /\ Polls >= 2
  /\ Issued("update-domain-entry")

\* C2: with a domain name of fewer than two labels no remote call is issued,
\* and the run ends in the validation error.
C2_InvalidDomainFailsBeforeAnyCall ==
  IsInvalidDomain(domainName) =>
    /\ calls = <<>>
    /\ pc = "exit" => error = InvalidDomainError

\* A failure the source takes for a race on a creation call.
IsSwallowedRace(c) ==
  \/ c.op = "create-certificate" /\ c.stderr \in {MsgAlreadyExist, MsgAlreadyExists}
  \/ c.op = "create-domain-entry" /\ c.stderr = MsgAlreadyExists

\* The failed call is the last of the run, which ended with exit code 1 and
\* that call's error.
AbortedBy(i) ==
  /\ i = Len(calls)
  /\ pc = "exit"
  /\ exitCode = 1
  /\ error = RemoteError(calls[i].stderr)

C4_NoCreateWhenCertificateExists ==
  /\ certExists => ~Issued("create-certificate")
  /\ \A i \in 1..Len(calls) :
       calls[i].op \in {"get-certificates", "create-certificate", "get-domain",
                       "get-container-services", "create-domain-entry",
                       "update-container-service", "update-domain-entry"}

C4_Witness ==
  /\ certExists
  /\ certNameOpt # <<>>
  /\ exitCode = 0

\* C5: a create-certificate call that fails with "already exist" in its error
\* output does not raise, and the run goes on with the listing of the zone; a
\* create-certificate call that fails with any other error output, or none,
\* aborts the run: no DNS or binding call follows.
C5_CertificateRaceIsSuccess ==
  \A i \in 1..Len(calls) :
    (calls[i].op = "create-certificate" /\ ~calls[i].ok) =>
      IF calls[i].stderr \in {MsgAlreadyExist, MsgAlreadyExists}
      THEN /\ i = Len(calls) => pc = "getDomainNames" /\ exitCode = -1
           /\ i < Len(calls) => calls[i + 1].step = "getDomainNames"
      ELSE AbortedBy(i)

C5_Witness ==
  /\ \E i \in 1..Len(calls) :
       calls[i].op = "create-certificate" /\ calls[i].stderr = MsgAlreadyExist
  /\ exitCode = 0


\* What holds of the wait at every moment: it never polls more than
\* maxAttempts times; it ends in the timeout error exactly after maxAttempts
\* polls that all missed the name; it returns exactly at the first poll that
\* saw the name, having slept once after each earlier poll and not after
\* that one; and no poll follows one that saw the name.
WaitIsBounded ==
  /\ Polls <= maxAttempts
  /\ Len(pollLog) <= Polls
  /\ \A k \in 1..Len(pollLog) :
       pollLog[k] => k = Len(pollLog) /\ k = Polls /\ waitOutcome = "returned"
  /\ waitOutcome = "timeout" =>
       /\ Polls = maxAttempts /\ Len(pollLog) = maxAttempts
       /\ \A k \in 1..Len(pollLog) : ~pollLog[k]
       /\ pc = "exit" /\ exitCode = 1
       /\ error.kind = "timeout"
       /\ error.message = "did not appear in Lightsail DNS"
       /\ error.secs = (maxAttempts * delayMs) \div 1000
  /\ waitOutcome = "returned" =>
       /\ Polls >= 1 /\ Len(pollLog) = Polls
       /\ pollLog[Polls]
       /\ sleeps = Polls - 1
       /\ error = NoError
  /\ waitOutcome = "pending" => sleeps = Len(pollLog) /\ attempts = Len(pollLog)
  /\ waitOutcome = "thrown" => ~LastCall.ok /\ error = RemoteError(LastCall.stderr)

\* C6: waitForDomainEntry always terminates, for every maxAttempts >= 0 and
\* every behaviour of the zone: with the name never listed it polls exactly
\* maxAttempts times and fails with the "did not appear" error; with the name
\* first listed at the k-th poll it returns after exactly k polls, without
\* sleeping after that poll and without a further poll; it never polls more
\* than maxAttempts times.  (A poll that itself fails ends the wait with that
\* failure.)
C6_WaitTerminatesWithinMaxAttempts ==
  /\ []WaitIsBounded
  /\ <>(waitOutcome # "pending")

C6_Witness ==
  /\ waitOutcome = "timeout"
  /\ maxAttempts = 2 /\ delayMs = 0
  /\ Polls = 2

\* An entry of zone z as the platform holds it.
Holds(z, n, t) == \E e \in domainEntries : e.zone = z /\ e.name = n /\ e.type = t

\* C7: after a run that ends successfully the zone holds a CNAME entry under
\* the full record name and an A entry {name: r, type: 'A', target:
\* normalize(u), isAlias: true}, created when none existed.
C7_SuccessLeavesCnameAndAliasRecord ==
  (pc = "exit" /\ exitCode = 0) =>
    /\ Holds(zoneName, FullRecordName(recordName, zoneName), "CNAME")
    /\ \E e \in domainEntries :
         /\ e.zone = dnsZoneName /\ e.name = dnsRecordName /\ e.type = "A"
         /\ e.target = CleanTarget(Trim(ServiceUrl)) /\ e.isAlias

\* C9: whatever --dns-zone is, the wait polls the zone in which attachCert
\* listed and created the CNAME entry, for the full record name of that
\* entry.
C9_WaitPollsTheCnameOfAttachCert ==
  pc = "waitForDomainEntry" =>
    /\ waitZoneName = zoneName
    /\ waitDomainName = FullRecordName(recordName, zoneName)

\* C10: every DNS-zone call goes to the DNS region, the certificate query
\* goes to the region of create-certificate, and a run that follows one that
\* created the certificate issues no create-certificate call.
C10_OneRegionPerResource ==
  /\ \A i \in 1..Len(calls) :
       calls[i].op \in {"get-domain", "create-domain-entry", "update-domain-entry"}
         => calls[i].region = DefaultDNSRegion
  /\ \A i, j \in 1..Len(calls) :
       (calls[i].op = "get-certificates" /\ calls[j].op = "create-certificate")
         => calls[i].region = calls[j].region
  /\ (run > 1 /\ (run - 1) \in createdInRuns) => ~Issued("create-certificate")

\* C8 as stated: applying certNameFromDomain twice yields the same as once.
C8_CertNameIsIdempotent ==
  pc = "applied" => outStr2 = outStr

\* C8 amended: applying certNameFromDomain to its own result appends a second
\* "-cert" and changes nothing else (the replacement and the lowercasing are
\* idempotent, the function is not); the output consists only of lowercase
\* letters, digits and '-' and ends in "-cert".
C8_CertNameAppendsSuffixEachTime ==
  pc = "applied" =>
    /\ outStr2 = outStr \o CertSuffix
    /\ \A i \in 1..Len(outStr) : outStr[i] \in LowerLetters \cup Digits \cup {"-"}
    /\ Len(outStr) = Len(inStr) + Len(CertSuffix)
    /\ SubSeq(outStr, Len(inStr) + 1, Len(outStr)) = CertSuffix

C8_Witness ==
  /\ pc = "applied"
  /\ inStr = <<"a", ".", "B">>
  /\ outStr = <<"a", "-", "b", "-", "c", "e", "r", "t">>

====
